---- MODULE Spec2Model ----
(***************************************************************************)
(* A model of beamconv's detector.Beam (src/beamconv/detector.py): the     *)
(* band-limit setters (lmax, fwhm, mmax), the lazily computed and cached   *)
(* blm attribute, the file loader's effect on the beam, and the ghost      *)
(* registry (create_ghost, reuse_blm, delete_blm, the dead cascade).       *)
(*                                                                         *)
(* The heap is the sequence `beams`: a Beam object is its index.  A blm    *)
(* triplet is an object too: its identity is a positive integer, so that  *)
(* "the same object" and "an equal copy" are different things.            *)
(*                                                                         *)
(* Python's None is the empty tuple and a supplied value v is <<v>>.  An   *)
(* attribute that may be missing on the object (blm, ghost_idx, ghosts,   *)
(* ghost_count) has a value that stands for "no such attribute".          *)
(*                                                                         *)
(* fwhm is a real number in the code.  Here it is the exact fraction      *)
(* <<num, den>> arcmin; 2*pi*1.4/radians(fwhm/60) is 30240/fwhm exactly,   *)
(* and degrees(1.4*2*pi/lmax)*60 is 30240/lmax.                           *)
(***************************************************************************)
EXTENDS Integers, Sequences, FiniteSets, TLC

\* ------------------------------------------------------------------ bounds
MaxBeams == 3
MaxBlm == 2
MaxOps == 3

\* --------------------------------------------------------------- constants
None == <<>>
NoBlm == 0
NoAttr == -1
NyquistArcmin == 30240
DefaultLmax == 700

Some(v) == <<v>>
Max2(a, b) == IF a >= b THEN a ELSE b
Min2(a, b) == IF a <= b THEN a ELSE b
Abs(a) == IF a < 0 THEN 0 - a ELSE a

Ok(v) == [err |-> "ok", v |-> v]
Raise(e, v) == [err |-> e, v |-> v]

\* ---------------------------------------------------- band-limit setters
\* int(2 * np.pi / np.radians(self.fwhm/60.) * 1.4).  The quotient is
\* computed in floating point: where 30240/fwhm is a whole number q the
\* rounding of the intermediate results decides between q and q - 1
\* (lmax = 700 gives fwhm = 43.2 and back lmax = 699); rnd is that outcome.
LmaxFromFwhm(fw, rnd) ==
    LET q == (NyquistArcmin * fw[2]) \div fw[1]
    IN  IF (NyquistArcmin * fw[2]) % fw[1] = 0 /\ q > 0 THEN q - rnd ELSE q

\* lmax.setter.  fwhmAttr is None while __init__ has not yet assigned
\* self.fwhm (reading it raises AttributeError), else <<fwhm>>.
lmax_setter(val, fwhmAttr, rnd) ==
    IF val = None
    THEN IF fwhmAttr = None THEN Raise("AttributeError", 0)
         ELSE IF fwhmAttr[1][1] = 0 THEN Raise("ArithmeticError", 0)
         ELSE Ok(LmaxFromFwhm(fwhmAttr[1], rnd))
    ELSE Ok(Max2(val[1], 0))

\* fwhm.setter: derived from lmax when None and lmax is truthy, else
\* np.abs(val), which raises TypeError on None.  val is None or <<fraction>>.
fwhm_setter(val, lmax) ==
    IF val = None
    THEN IF lmax # 0 THEN Ok(<<NyquistArcmin, lmax>>)
         ELSE Raise("TypeError", <<0, 1>>)
    ELSE Ok(<<Abs(val[1][1]), val[1][2]>>)

\* mmax.setter: min over the values of [mmax, self.lmax] that are not None.
mmax_setter(mmax, lmax) ==
    IF mmax = None THEN lmax ELSE Min2(mmax[1], lmax)

\* ------------------------------------------------------------ Beam.__init__
\* The keyword defaults of Beam.__init__.  name is a sequence of name parts
\* (None and '' are the empty sequence); sensitive_freq is in MHz.
DefaultArgs ==
    [az |-> 0, el |-> 0, polang |-> 0, name |-> <<>>, pol |-> "A",
     btype |-> "Gaussian", fwhm |-> None, lmax |-> Some(DefaultLmax),
     mmax |-> None, sensitive_freq |-> <<1500>>, dead |-> FALSE,
     ghost |-> FALSE, amplitude |-> 1, po_file |-> None, eg_file |-> None,
     cross_pol |-> TRUE, deconv_q |-> TRUE, normalize |-> TRUE,
     polang_error |-> 0, idx |-> None, symmetric |-> FALSE]

ArgNames == DOMAIN DefaultArgs

\* dict.update: the entries of over replace or extend those of base.
Update(base, over) ==
    [k \in (DOMAIN base) \cup (DOMAIN over) |->
        IF k \in DOMAIN over THEN over[k] ELSE base[k]]

\* dict.pop(key, None)
Pop(d, key) == [k \in (DOMAIN d) \ {key} |-> d[k]]

\* Beam(**kw): lines 83-108 in order.  The dead setter runs before
\* self.__ghosts exists, so it only stores the flag.  self.lmax = lmax runs
\* before self.fwhm is assigned.
Beam_init(kw) ==
    IF ~((DOMAIN kw) \subseteq ArgNames) THEN Raise("TypeError", DefaultArgs)
    ELSE
    LET a  == Update(DefaultArgs, kw)
        lm == lmax_setter(a.lmax, None, 0)
        mm == mmax_setter(a.mmax, lm.v)
        fw == fwhm_setter(a.fwhm, lm.v)
        obj == [az |-> a.az, el |-> a.el, polang |-> a.polang,
                name |-> a.name, pol |-> a.pol, btype |-> a.btype,
                dead |-> a.dead, amplitude |-> a.amplitude,
                po_file |-> a.po_file, eg_file |-> a.eg_file,
                cross_pol |-> a.cross_pol, lmax |-> lm.v, mmax |-> mm,
                sensitive_freq |-> a.sensitive_freq, fwhm |-> fw.v,
                deconv_q |-> a.deconv_q, normalize |-> a.normalize,
                polang_error |-> a.polang_error, idx |-> a.idx,
                symmetric |-> a.symmetric, ghost |-> a.ghost,
                ghosts |-> <<>>,
                ghost_count |-> IF a.ghost THEN NoAttr ELSE 0,
                ghost_idx |-> NoAttr, blm |-> NoBlm]
    IN  IF lm.err # "ok" THEN Raise(lm.err, DefaultArgs)
        ELSE IF fw.err # "ok" THEN Raise(fw.err, DefaultArgs)
        ELSE Ok(obj)

\* ---------------------------------------------------------------- state
VARIABLES beams, blms, ops, last

vars == <<beams, blms, ops, last>>

Ids == 1..Len(beams)

\* What a file read finds, decided by the file system and the file: npy is
\* the outcome of np.load ("rank1": one array, "rank3": three arrays,
\* "IOError", or "OtherError" for an exception that is not an IOError);
\* hdus is the number of HDUs after the primary one that the FITS file has
\* (0: it cannot be opened); mmax, mmaxm2, mmaxp2 are the azimuthal limits
\* hp.read_alm reports for HDU 1, 2 and 3.
FileOutcome(npy, hdus, mmax, mmaxm2, mmaxp2) ==
    [npy |-> npy, hdus |-> hdus, mmax |-> mmax, mmaxm2 |-> mmaxm2,
     mmaxp2 |-> mmaxp2]

NoFile == FileOutcome("none", 0, None, None, None)

NoKw == [k \in {} |-> 0]

\* What the last operation was and how it ended: the operation, the Beam it
\* was called on (0: none), its arguments by name, the exception that
\* reached the caller ("ok" if none), the coefficient provider that ran
\* inside it, the file formats it tried to read in order with what the
\* reads found, and the blm object it returned (NoBlm if none).
Last(op, self, kw, err, prov, tries, file, ret) ==
    [op |-> op, self |-> self, kw |-> kw, err |-> err, prov |-> prov,
     tries |-> tries, file |-> file, ret |-> ret]

\* The outcome of a method on the heap h: the heap after it, the blm
\* objects after it, the exception it raised, the provider that ran, the
\* reads it tried and the value it returned.
Out(h, o, err, prov, tries, ret) ==
    [h |-> h, o |-> o, err |-> err, prov |-> prov, tries |-> tries,
     ret |-> ret]

\* ------------------------------------------------- ghost_count, ghost_idx
\* ghost_count.setter: only a Beam that is no ghost has a ghost_count.
ghost_count_setter(h, self, count) ==
    IF ~h[self].ghost THEN Ok([h EXCEPT ![self].ghost_count = count])
    ELSE Raise("ValueError", h)

\* A ghost_idx setter without the role check.
ghost_idx_setter_unchecked(h, self, val) ==
    Ok([h EXCEPT ![self].ghost_idx = val])

\* ghost_idx.setter: only a ghost has a ghost_idx.
ghost_idx_setter(h, self, val) ==
    IF h[self].ghost THEN Ok([h EXCEPT ![self].ghost_idx = val])
    ELSE Raise("ValueError", h)

\* ------------------------------------------------------------ dead.setter
\* A dead setter that forgets the ghosts.
dead_setter_no_cascade(h, self, val) ==
    [h EXCEPT ![self].dead = val]

\* self.__dead = val, then the same on every ghost of self.ghosts; on a
\* ghost self.ghosts raises AttributeError, which is swallowed.
dead_setter(h, self, val) ==
    [i \in DOMAIN h |->
        IF i = self \/ (~h[self].ghost /\ \E k \in DOMAIN h[self].ghosts :
                                              h[self].ghosts[k] = i)
        THEN [h[i] EXCEPT !.dead = val]
        ELSE h[i]]

\* ------------------------------------------------------ coefficient provider
\* A blm triplet object, by what it was made from: synthesized ("gauss")
\* from fwhm and lmax or loaded from a file ("npy", "fits"), with three
\* channels of its own (cross) or spin +-2 made from the co-polar one, and
\* scaled by amplitude.
Triplet(via, file, cross, amplitude, lmax, fwhm) ==
    [via |-> via, file |-> file, cross |-> cross, amplitude |-> amplitude,
     lmax |-> lmax, fwhm |-> fwhm]

\* blm.setter with a new object t: self.__blm = t.
StoreNew(h, o, self, t) ==
    [h |-> [h EXCEPT ![self].blm = Len(o) + 1], o |-> Append(o, t)]

\* gen_gaussian_blm: tools.gauss_blm(fwhm, lmax), scaled by amplitude, then
\* tools.get_copol_blm; sets btype and blm.
gen_gaussian_blm(h, o, self) ==
    LET t == Triplet("gauss", None, FALSE, h[self].amplitude, h[self].lmax,
                     h[self].fwhm)
        s == StoreNew([h EXCEPT ![self].btype = "Gaussian"], o, self, t)
    IN  Out(s.h, s.o, "ok", "gauss", <<>>, NoBlm)

\* Lines 355-383: the array(s) read become the triplet.  Three channels are
\* kept only if self.cross_pol; else the first one is expanded.
FinishLoad(h, o, self, via, filename, channels, tries) ==
    LET t == Triplet(via, filename, channels = 3 /\ h[self].cross_pol,
                     h[self].amplitude, 0, <<0, 1>>)
        s == StoreNew(h, o, self, t)
    IN  Out(s.h, s.o, "ok", "load", tries, NoBlm)

\* A comparison of the azimuthal limits that forgets the spin +2 channel.
mmax_match_m2_only(env) == env.mmax = env.mmaxm2

\* Line 336: mmax == mmaxm2 == mmaxp2.
mmax_match(env) == env.mmax = env.mmaxm2 /\ env.mmaxm2 = env.mmaxp2

\* A failure that leaves what was read so far in the cache.
Abort_keeps_partial(h, o, self, err, tries) ==
    LET s == StoreNew(h, o, self,
                      Triplet("partial", None, FALSE, h[self].amplitude, 0,
                              <<0, 1>>))
    IN  Out(s.h, s.o, err, "load", tries, NoBlm)

\* An exception leaves load_blm (lines 308, 313, 321, 337): nothing has been
\* assigned to the Beam.
Abort(h, o, self, err, tries) == Out(h, o, err, "load", tries, NoBlm)

\* A load_blm that opens the file in the metadata format first and reads it
\* as a dense array only when that fails.
load_blm_fits_first(h, o, self, filename, env) ==
    IF filename = None
    THEN Abort(h, o, self, "TypeError", <<>>)
    ELSE IF env.hdus = 0
    THEN IF env.npy = "rank1"
         THEN FinishLoad(h, o, self, "npy", filename, 1, <<"fits", "npy">>)
         ELSE IF env.npy = "rank3"
         THEN FinishLoad(h, o, self, "npy", filename, 3, <<"fits", "npy">>)
         ELSE Abort(h, o, self, env.npy, <<"fits", "npy">>)
    ELSE IF env.hdus = 3 /\ ~mmax_match(env)
    THEN Abort(h, o, self, "ValueError", <<"fits">>)
    ELSE
    LET h1 == IF env.mmax = None
              THEN [h EXCEPT ![self].mmax = mmax_setter(None, h[self].lmax)]
              ELSE IF env.mmax[1] < h[self].mmax
              THEN [h EXCEPT ![self].mmax = mmax_setter(env.mmax, h[self].lmax)]
              ELSE h
    IN  FinishLoad(h1, o, self, "fits", filename,
                   IF env.hdus = 3 THEN 3 ELSE 1, <<"fits">>)

\* load_blm(filename, **kwargs) where the reads find env.
load_blm(h, o, self, filename, env) ==
    IF filename = None
    THEN \* os.path.splitext(None)
         Abort(h, o, self, "TypeError", <<>>)
    ELSE IF env.npy = "OtherError"
    THEN Abort(h, o, self, "OtherError", <<"npy">>)
    ELSE IF env.npy = "rank1"
    THEN FinishLoad(h, o, self, "npy", filename, 1, <<"npy">>)
    ELSE IF env.npy = "rank3"
    THEN FinishLoad(h, o, self, "npy", filename, 3, <<"npy">>)
    ELSE \* except IOError
    IF env.hdus = 0
    THEN Abort(h, o, self, "IOError", <<"npy", "fits">>)
    ELSE IF env.hdus = 3 /\ ~mmax_match(env)
    THEN Abort(h, o, self, "ValueError", <<"npy", "fits">>)
    ELSE
    LET h1 == IF env.mmax = None
              THEN [h EXCEPT ![self].mmax = mmax_setter(None, h[self].lmax)]
              ELSE IF env.mmax[1] < h[self].mmax
              THEN [h EXCEPT ![self].mmax = mmax_setter(env.mmax, h[self].lmax)]
              ELSE h
    IN  FinishLoad(h1, o, self, "fits", filename,
                   IF env.hdus = 3 THEN 3 ELSE 1, <<"npy", "fits">>)

\* A blm getter that never looks at the cache.
blm_getter_always_computes(h, o, self, env) ==
    LET r == IF h[self].btype = "Gaussian" THEN gen_gaussian_blm(h, o, self)
             ELSE IF h[self].btype = "PO"
             THEN load_blm(h, o, self, h[self].po_file, env)
             ELSE IF h[self].btype = "EG"
             THEN load_blm(h, o, self, h[self].eg_file, env)
             ELSE Out(h, o, "ValueError", "none", <<>>, NoBlm)
    IN  IF r.err = "ok" THEN [r EXCEPT !.ret = r.h[self].blm] ELSE r

\* blm getter: the cached object if there is one, else dispatch on btype.
blm_getter(h, o, self, env) ==
    IF h[self].blm # NoBlm
    THEN Out(h, o, "ok", "none", <<>>, h[self].blm)
    ELSE
    LET r == IF h[self].btype = "Gaussian" THEN gen_gaussian_blm(h, o, self)
             ELSE IF h[self].btype = "PO"
             THEN load_blm(h, o, self, h[self].po_file, env)
             ELSE IF h[self].btype = "EG"
             THEN load_blm(h, o, self, h[self].eg_file, env)
             ELSE Out(h, o, "ValueError", "none", <<>>, NoBlm)
    IN  IF r.err = "ok" THEN [r EXCEPT !.ret = r.h[self].blm] ELSE r

\* ------------------------------------------------------------- delete_blm
\* A delete_blm that clears the ghosts' caches whatever del_ghosts_blm is.
delete_blm_always_cascades(h, self, del_ghosts_blm) ==
    LET h1 == [h EXCEPT ![self].blm = NoBlm]
    IN  IF h[self].ghost THEN Raise("AttributeError", h1)
        ELSE Ok([i \in DOMAIN h1 |->
                   IF \E k \in DOMAIN h[self].ghosts : h[self].ghosts[k] = i
                   THEN [h1[i] EXCEPT !.blm = NoBlm] ELSE h1[i]])

\* del self.blm, ignoring a missing one; then any(self.ghosts), which on a
\* ghost raises AttributeError; then the same del on every ghost.
delete_blm(h, self, del_ghosts_blm) ==
    LET h1 == [h EXCEPT ![self].blm = NoBlm]
    IN  IF h[self].ghost THEN Raise("AttributeError", h1)
        ELSE IF Len(h[self].ghosts) > 0 /\ del_ghosts_blm
        THEN Ok([i \in DOMAIN h1 |->
                   IF \E k \in DOMAIN h[self].ghosts : h[self].ghosts[k] = i
                   THEN [h1[i] EXCEPT !.blm = NoBlm] ELSE h1[i]])
        ELSE Ok(h1)

\* -------------------------------------------------------------- reuse_blm
\* partner = 0 stands for an object that is not a Beam.
reuse_blm(h, o, self, partner, env) ==
    IF partner = 0 THEN Out(h, o, "TypeError", "none", <<>>, NoBlm)
    ELSE IF h[partner].ghost /\ h[self].ghost /\ h[partner].ghost_idx = NoAttr
    THEN Out(h, o, "AttributeError", "none", <<>>, NoBlm)
    ELSE
    LET h1 == IF h[partner].ghost /\ h[self].ghost
              THEN [h EXCEPT ![self].ghost_idx = h[partner].ghost_idx]
              ELSE h
        r  == blm_getter(h1, o, partner, env)
        p  == r.h[partner]
        lm == lmax_setter(Some(p.lmax), Some(r.h[self].fwhm), 0).v
        h2 == [r.h EXCEPT ![self].blm = r.ret,
                          ![self].btype = p.btype,
                          ![self].lmax = lm,
                          ![self].mmax = mmax_setter(Some(p.mmax), lm),
                          ![self].amplitude = p.amplitude]
    IN  IF r.err # "ok" THEN [r EXCEPT !.ret = NoBlm]
        ELSE Out(h2, r.o, "ok", r.prov, r.tries, NoBlm)

\* ----------------------------------------------------------- create_ghost
\* A registration that numbers the ghost after counting it.
Register_counts_first(h, self, g) ==
    Append([h EXCEPT ![self].ghost_count = @ + 1,
                     ![self].ghosts = Append(@, Len(h) + 1)],
           [g EXCEPT !.ghost_idx = h[self].ghost_count + 1])

\* Lines 445-449: the new ghost g gets ghost_idx = self.ghost_count, the
\* count goes up by one and g is appended to self.ghosts.
Register(h, self, g) ==
    Append([h EXCEPT ![self].ghost_count = @ + 1,
                     ![self].ghosts = Append(@, Len(h) + 1)],
           [g EXCEPT !.ghost_idx = h[self].ghost_count])

\* Options that keep the caller's ghost entry.
ForceGhost_keeps_override(opts) == Update([ghost |-> FALSE], opts)

\* Line 442: ghost_opts.update(dict(ghost=True)).
ForceGhost(opts) == Update(opts, [ghost |-> TRUE])

\* A failed spawn that has already counted the ghost.
SpawnFailed_counted(h, self, err) ==
    Raise(err, [h EXCEPT ![self].ghost_count = @ + 1])

\* Line 443 raises: Beam(**ghost_opts) failed, lines 445-449 do not run.
SpawnFailed(h, self, err) == Raise(err, h)

\* Lines 410-449.  tag is a sequence of name parts: <<>> for None and ''.
Spawn(h, self, tag, kwargs) ==
    LET parent_name == h[self].name
        kw == Pop(kwargs, "name")
        name == IF tag # <<>>
                THEN IF parent_name # <<>> THEN parent_name \o tag ELSE tag
                ELSE parent_name
        ghost_opts == [az |-> h[self].az,
                       el |-> h[self].el,
                       polang |-> h[self].polang,
                       name |-> name,
                       pol |-> h[self].pol,
                       btype |-> h[self].btype,
                       fwhm |-> Some(h[self].fwhm),
                       dead |-> h[self].dead,
                       lmax |-> Some(h[self].lmax),
                       mmax |-> Some(h[self].mmax),
                       amplitude |-> h[self].amplitude,
                       po_file |-> h[self].po_file,
                       eg_file |-> h[self].eg_file,
                       cross_pol |-> h[self].cross_pol,
                       deconv_q |-> h[self].deconv_q,
                       normalize |-> h[self].normalize,
                       polang_error |-> h[self].polang_error]
        opts == ForceGhost(Update(ghost_opts, kw))
        g == Beam_init(opts)
    IN  IF g.err # "ok" THEN SpawnFailed(h, self, g.err)
        ELSE Ok(Register(h, self, g.v))

\* A create_ghost without the check of lines 407-408.
create_ghost_unchecked(h, self, tag, kwargs) ==
    Spawn(h, self, tag, kwargs)

\* Lines 407-408, then the spawn.
create_ghost(h, self, tag, kwargs) ==
    IF h[self].ghost THEN Raise("RuntimeError", h)
    ELSE Spawn(h, self, tag, kwargs)

\* ----------------------------------------------------------------- inputs
Fwhm43 == <<43, 1>>

CtorKwargs ==
    { NoKw,
      [lmax |-> None, fwhm |-> Some(Fwhm43)],
      [lmax |-> None],
      [lmax |-> Some(5), mmax |-> Some(2)],
      [lmax |-> Some(0)],
      [ghost |-> TRUE, lmax |-> Some(5)],
      [btype |-> "PO", po_file |-> Some("po"), lmax |-> Some(5),
       symmetric |-> TRUE, dead |-> TRUE, amplitude |-> 2, az |-> 1,
       el |-> 1, polang |-> 45, polang_error |-> 1, pol |-> "B",
       cross_pol |-> FALSE, deconv_q |-> FALSE, normalize |-> FALSE,
       name |-> <<"det">>, idx |-> Some(7), eg_file |-> Some("eg")],
      [bogus |-> 1] }

\* create_ghost(tag, **kw) calls
GhostCalls ==
    { [tag |-> <<"ghost">>, kw |-> NoKw],
      [tag |-> <<>>, kw |-> [dead |-> FALSE]],
      [tag |-> <<"ghost">>, kw |-> [lmax |-> Some(2), btype |-> "EG"]],
      [tag |-> <<"ghost">>, kw |-> [lmax |-> None]],
      [tag |-> <<"g">>,
       kw |-> [ghost |-> FALSE, name |-> <<"x">>, symmetric |-> TRUE]],
      [tag |-> <<"ghost">>, kw |-> [bogus |-> 1]] }

LmaxVals == { None, Some(2), Some(-1) }
MmaxVals == { None, Some(1), Some(9) }
FwhmVals == { None, Some(Fwhm43), Some(<<-43, 1>>), Some(<<0, 1>>) }
BtypeVals == { "Gaussian", "PO", "EG", "bad" }
AmplitudeVals == { 1, 2 }
Filenames == { None, Some("blm") }
CountVals == { 0, 5 }

FileOutcomes ==
    { FileOutcome("rank1", 0, None, None, None),
      FileOutcome("rank3", 0, None, None, None),
      FileOutcome("OtherError", 0, None, None, None),
      FileOutcome("IOError", 0, None, None, None),
      FileOutcome("IOError", 1, None, None, None),
      FileOutcome("IOError", 1, Some(1), None, None),
      FileOutcome("IOError", 3, Some(4), Some(4), Some(4)),
      FileOutcome("IOError", 3, Some(1), Some(2), Some(1)),
      FileOutcome("IOError", 3, Some(1), Some(1), Some(2)),
      FileOutcome("IOError", 3, Some(2), Some(1), Some(1)) }

\* The rounding outcomes of self.lmax = val: two where the quotient is whole.
Rounding(self, val) ==
    LET fw == beams[self].fwhm
    IN  IF val = None /\ fw[1] # 0 /\ (NyquistArcmin * fw[2]) % fw[1] = 0
        THEN {0, 1} ELSE {0}

\* A dense-array file, and no readable file at all.
FewOutcomes ==
    { FileOutcome("rank1", 0, None, None, None),
      FileOutcome("IOError", 0, None, None, None) }

\* What a read of filename can find, of the outcomes F: nothing is read when
\* there is no name.
ReadsOf(F, filename) == IF filename = None THEN {NoFile} ELSE F

Reads(filename) == ReadsOf(FileOutcomes, filename)

\* What the reads inside self.blm can find: no file is read when the cache
\* is there or the btype names no file.
BlmReadsOf(F, self) ==
    IF self = 0 THEN {NoFile}
    ELSE IF beams[self].blm # NoBlm THEN {NoFile}
    ELSE IF beams[self].btype = "PO" THEN ReadsOf(F, beams[self].po_file)
    ELSE IF beams[self].btype = "EG" THEN ReadsOf(F, beams[self].eg_file)
    ELSE {NoFile}

BlmReads(self) == BlmReadsOf(FileOutcomes, self)

\* ------------------------------------------------------------------- Init
\* One Beam has been constructed.
Init ==
    /\ \E kw \in CtorKwargs :
          /\ Beam_init(kw).err = "ok"
          /\ beams = <<Beam_init(kw).v>>
          /\ last = Last("Beam", 1, kw, "ok", "none", <<>>, NoFile, NoBlm)
    /\ blms = <<>>
    /\ ops = 0

Step == ops < MaxOps /\ ops' = ops + 1

\* ---------------------------------------------------------------- actions
Done(h, o, l) == beams' = h /\ blms' = o /\ last' = l

\* b = Beam(**kw)
Construct(kw) ==
    /\ Step
    /\ Len(beams) < MaxBeams
    /\ LET r == Beam_init(kw)
       IN  Done(IF r.err = "ok" THEN Append(beams, r.v) ELSE beams, blms,
                Last("Beam", IF r.err = "ok" THEN Len(beams) + 1 ELSE 0, kw,
                     r.err, "none", <<>>, NoFile, NoBlm))

\* self.lmax = val
SetLmax(self, val, rnd) ==
    /\ Step
    /\ LET r == lmax_setter(val, Some(beams[self].fwhm), rnd)
       IN  Done(IF r.err = "ok" THEN [beams EXCEPT ![self].lmax = r.v]
                ELSE beams, blms,
                Last("lmax", self, [lmax |-> val], r.err, "none", <<>>,
                     NoFile, NoBlm))

\* self.fwhm = val
SetFwhm(self, val) ==
    /\ Step
    /\ LET r == fwhm_setter(val, beams[self].lmax)
       IN  Done(IF r.err = "ok" THEN [beams EXCEPT ![self].fwhm = r.v]
                ELSE beams, blms,
                Last("fwhm", self, [fwhm |-> val], r.err, "none", <<>>,
                     NoFile, NoBlm))

\* self.mmax = val
SetMmax(self, val) ==
    /\ Step
    /\ Done([beams EXCEPT ![self].mmax = mmax_setter(val, beams[self].lmax)],
            blms,
            Last("mmax", self, [mmax |-> val], "ok", "none", <<>>, NoFile,
                 NoBlm))

\* self.btype = val
SetBtype(self, val) ==
    /\ Step
    /\ Done([beams EXCEPT ![self].btype = val], blms,
            Last("btype", self, [btype |-> val], "ok", "none", <<>>, NoFile,
                 NoBlm))

\* self.amplitude = val
SetAmplitude(self, val) ==
    /\ Step
    /\ Done([beams EXCEPT ![self].amplitude = val], blms,
            Last("amplitude", self, [amplitude |-> val], "ok", "none", <<>>,
                 NoFile, NoBlm))

\* self.dead = val
SetDead(self, val) ==
    /\ Step
    /\ Done(dead_setter(beams, self, val), blms,
            Last("dead", self, [dead |-> val], "ok", "none", <<>>, NoFile,
                 NoBlm))

\* self.ghost_count = val
SetGhostCount(self, val) ==
    /\ Step
    /\ LET r == ghost_count_setter(beams, self, val)
       IN  Done(r.v, blms,
                Last("ghost_count", self, [ghost_count |-> val], r.err,
                     "none", <<>>, NoFile, NoBlm))

\* self.ghost_idx = val
SetGhostIdx(self, val) ==
    /\ Step
    /\ LET r == ghost_idx_setter(beams, self, val)
       IN  Done(r.v, blms,
                Last("ghost_idx", self, [ghost_idx |-> val], r.err, "none",
                     <<>>, NoFile, NoBlm))

\* self.blm = val, val a triplet that exists
SetBlm(self, val) ==
    /\ Step
    /\ Done([beams EXCEPT ![self].blm = val], blms,
            Last("blm=", self, [blm |-> val], "ok", "none", <<>>, NoFile,
                 NoBlm))

\* del self.blm
DelBlm(self) ==
    /\ Step
    /\ Done([beams EXCEPT ![self].blm = NoBlm], blms,
            Last("del blm", self, NoKw,
                 IF beams[self].blm = NoBlm THEN "AttributeError" ELSE "ok",
                 "none", <<>>, NoFile, NoBlm))

\* self.blm (a read)
ReadBlm(self, env) ==
    /\ Step
    /\ LET r == blm_getter(beams, blms, self, env)
       IN  /\ Len(r.o) <= MaxBlm
           /\ Done(r.h, r.o,
                   Last("blm", self, NoKw, r.err, r.prov, r.tries, env, r.ret))

\* self.load_blm(filename)
LoadBlm(self, filename, env) ==
    /\ Step
    /\ LET r == load_blm(beams, blms, self, filename, env)
       IN  /\ Len(r.o) <= MaxBlm
           /\ Done(r.h, r.o,
                   Last("load_blm", self, [filename |-> filename], r.err,
                        r.prov, r.tries, env, NoBlm))

\* self.gen_gaussian_blm()
GenGaussianBlm(self) ==
    /\ Step
    /\ LET r == gen_gaussian_blm(beams, blms, self)
       IN  /\ Len(r.o) <= MaxBlm
           /\ Done(r.h, r.o,
                   Last("gen_gaussian_blm", self, NoKw, r.err, r.prov,
                        r.tries, NoFile, NoBlm))

\* self.create_ghost(tag, **kw)
CreateGhost(self, tag, kw) ==
    /\ Step
    /\ Len(beams) < MaxBeams
    /\ LET r == create_ghost(beams, self, tag, kw)
       IN  Done(r.v, blms,
                Last("create_ghost", self, Update(kw, [tag |-> tag]), r.err,
                     "none", <<>>, NoFile, NoBlm))

\* self.reuse_blm(partner)
ReuseBlm(self, partner, env) ==
    /\ Step
    /\ LET r == reuse_blm(beams, blms, self, partner, env)
       IN  /\ Len(r.o) <= MaxBlm
           /\ Done(r.h, r.o,
                   Last("reuse_blm", self, [partner |-> partner], r.err,
                        r.prov, r.tries, env, NoBlm))

\* self.delete_blm(del_ghosts_blm)
DeleteBlm(self, del_ghosts_blm) ==
    /\ Step
    /\ LET r == delete_blm(beams, self, del_ghosts_blm)
       IN  Done(r.v, blms,
                Last("delete_blm", self, [del_ghosts_blm |-> del_ghosts_blm],
                     r.err, "none", <<>>, NoFile, NoBlm))

Next ==
    \/ \E kw \in CtorKwargs : Construct(kw)
    \/ \E self \in Ids, val \in LmaxVals :
          \E rnd \in Rounding(self, val) : SetLmax(self, val, rnd)
    \/ \E self \in Ids, val \in FwhmVals : SetFwhm(self, val)
    \/ \E self \in Ids, val \in MmaxVals : SetMmax(self, val)
    \/ \E self \in Ids, val \in BtypeVals : SetBtype(self, val)
    \/ \E self \in Ids, val \in AmplitudeVals : SetAmplitude(self, val)
    \/ \E self \in Ids, val \in BOOLEAN : SetDead(self, val)
    \/ \E self \in Ids, val \in 1..Len(blms) : SetBlm(self, val)
    \/ \E self \in Ids : DelBlm(self)
    \/ \E self \in Ids : \E env \in BlmReads(self) : ReadBlm(self, env)
    \/ \E self \in Ids, filename \in Filenames :
          \E env \in Reads(filename) : LoadBlm(self, filename, env)
    \/ \E self \in Ids : GenGaussianBlm(self)
    \/ \E self \in Ids, c \in GhostCalls : CreateGhost(self, c.tag, c.kw)
    \/ \E self \in Ids, partner \in Ids \cup {0} :
          \E env \in BlmReads(partner) : ReuseBlm(self, partner, env)
    \/ \E self \in Ids, f \in BOOLEAN : DeleteBlm(self, f)
    \/ \E self \in Ids, val \in CountVals : SetGhostCount(self, val)
    \/ \E self \in Ids, val \in CountVals : SetGhostIdx(self, val)

Spec == Init /\ [][Next]_vars

\* The coefficient cache: reads, the setters a read depends on, and every
\* way to clear or replace the cache.
CacheKwargs ==
    { NoKw,
      [btype |-> "PO", po_file |-> Some("po"), lmax |-> Some(5)] }

NextCache ==
    \/ \E kw \in CacheKwargs : Construct(kw)
    \/ \E self \in Ids : \E env \in BlmReads(self) : ReadBlm(self, env)
    \/ \E self \in Ids, val \in BtypeVals : SetBtype(self, val)
    \/ \E self \in Ids : SetAmplitude(self, 2)
    \/ \E self \in Ids : SetLmax(self, Some(2), 0)
    \/ \E self \in Ids : SetFwhm(self, Some(Fwhm43))
    \/ \E self \in Ids, val \in 1..Len(blms) : SetBlm(self, val)
    \/ \E self \in Ids : DelBlm(self)
    \/ \E self \in Ids, f \in BOOLEAN : DeleteBlm(self, f)
    \/ \E self \in Ids, partner \in Ids :
          \E env \in BlmReadsOf(FewOutcomes, partner) :
             ReuseBlm(self, partner, env)
    \/ \E self \in Ids : \E env \in FewOutcomes :
          LoadBlm(self, Some("blm"), env)
    \/ \E self \in Ids : GenGaussianBlm(self)
    \/ \E self \in Ids : CreateGhost(self, <<"ghost">>, NoKw)

SpecCache == Init /\ [][NextCache]_vars

\* The ghost registry: spawning, the dead cascade, and the caches of a
\* family.
NextGhost ==
    \/ \E kw \in CtorKwargs : Construct(kw)
    \/ \E self \in Ids, c \in GhostCalls : CreateGhost(self, c.tag, c.kw)
    \/ \E self \in Ids, val \in BOOLEAN : SetDead(self, val)
    \/ \E self \in Ids, f \in BOOLEAN : DeleteBlm(self, f)
    \/ \E self \in Ids : \E env \in BlmReadsOf(FewOutcomes, self) :
          ReadBlm(self, env)
    \/ \E self \in Ids, partner \in Ids \cup {0} :
          \E env \in BlmReadsOf(FewOutcomes, partner) :
             ReuseBlm(self, partner, env)

SpecGhost == Init /\ [][NextGhost]_vars

\* The coefficient providers: every outcome of the two file reads, through
\* load_blm, the blm getter and reuse_blm, on Beams of every btype and mmax.
NextLoad ==
    \/ \E kw \in CacheKwargs : Construct(kw)
    \/ \E self \in Ids, val \in BtypeVals : SetBtype(self, val)
    \/ \E self \in Ids, val \in MmaxVals : SetMmax(self, val)
    \/ \E self \in Ids : \E env \in BlmReads(self) : ReadBlm(self, env)
    \/ \E self \in Ids, filename \in Filenames :
          \E env \in Reads(filename) : LoadBlm(self, filename, env)
    \/ \E self \in Ids : DelBlm(self)
    \/ \E self \in Ids, partner \in Ids :
          \E env \in BlmReads(partner) : ReuseBlm(self, partner, env)

SpecLoad == Init /\ [][NextLoad]_vars

\* A primary that has spawned two ghosts with default arguments: the state
\* after p = Beam(**kw); p.create_ghost(); p.create_ghost().
FamilyKwargs ==
    { NoKw,
      [btype |-> "PO", po_file |-> Some("po"), lmax |-> Some(5)] }

InitFamily ==
    /\ \E kw \in FamilyKwargs :
          LET h0 == <<Beam_init(kw).v>>
              h1 == create_ghost(h0, 1, <<"ghost">>, NoKw).v
          IN  beams = create_ghost(h1, 1, <<"ghost">>, NoKw).v
    /\ blms = <<>>
    /\ ops = 0
    /\ last = Last("create_ghost", 1, [tag |-> <<"ghost">>], "ok", "none",
                   <<>>, NoFile, NoBlm)

\* The caches of a family: reads, sharing and invalidation.
NextFamily ==
    \/ \E self \in Ids : \E env \in BlmReadsOf(FewOutcomes, self) :
          ReadBlm(self, env)
    \/ \E self \in Ids, partner \in Ids :
          \E env \in BlmReadsOf(FewOutcomes, partner) :
             ReuseBlm(self, partner, env)
    \/ \E self \in Ids, f \in BOOLEAN : DeleteBlm(self, f)
    \/ \E self \in Ids : DelBlm(self)
    \/ \E self \in Ids, val \in BOOLEAN : SetDead(self, val)

SpecFamily == InitFamily /\ [][NextFamily]_vars

\* The role-dependent attributes of a family.
NextRole ==
    \/ \E self \in Ids, val \in CountVals : SetGhostCount(self, val)
    \/ \E self \in Ids, val \in CountVals : SetGhostIdx(self, val)
    \/ \E self \in Ids, partner \in Ids :
          \E env \in BlmReadsOf(FewOutcomes, partner) :
             ReuseBlm(self, partner, env)
    \/ \E self \in Ids, f \in BOOLEAN : DeleteBlm(self, f)

SpecRole == InitFamily /\ [][NextRole]_vars

\* ------------------------------------------------------------------ claims
Owned(h, p) == IF h[p].ghost THEN {}
               ELSE { h[p].ghosts[k] : k \in DOMAIN h[p].ghosts }

Called(op) == last'.op = op

\* C1: in every reachable state of a Beam, also after assignments to lmax,
\* mmax or fwhm, blm loads and reuse_blm calls, mmax <= lmax.
C1_MmaxLeLmax == \A i \in Ids : beams[i].mmax <= beams[i].lmax

\* C2: constructing a Beam with lmax None and a positive fwhm succeeds, with
\* lmax = floor(1.4*2*pi/radians(fwhm/60)) and, mmax unset, mmax = lmax.
C2_LmaxFromFwhmAtConstruction ==
    ( /\ last.op = "Beam"
      /\ DOMAIN last.kw \subseteq ArgNames
      /\ "lmax" \in DOMAIN last.kw /\ last.kw.lmax = None
      /\ "fwhm" \in DOMAIN last.kw /\ last.kw.fwhm # None
      /\ last.kw.fwhm[1][1] > 0 )
    => /\ last.err = "ok"
       /\ beams[last.self].lmax =
             (NyquistArcmin * last.kw.fwhm[1][2]) \div last.kw.fwhm[1][1]
       /\ ("mmax" \notin DOMAIN last.kw
              => beams[last.self].mmax = beams[last.self].lmax)

\* C4: delete_blm() on a Beam whose cache is absent, primary or ghost, with
\* either value of del_ghosts_blm, returns normally and changes no state.
C4_DeleteAbsentIsNoOp ==
    [][ (Called("delete_blm") /\ beams[last'.self].blm = NoBlm)
        => (last'.err = "ok" /\ beams' = beams /\ blms' = blms) ]_vars

\* C7: after target.reuse_blm(partner) returns normally, target.blm is the
\* same triplet object as partner.blm, target's btype, lmax, mmax and
\* amplitude equal partner's, and target's ghost_idx equals partner's if
\* both are ghosts and is otherwise unchanged.
C7_ReuseCopiesPartner ==
    [][ (Called("reuse_blm") /\ last'.err = "ok")
        => LET t == beams'[last'.self]
               p == beams'[last'.kw.partner]
           IN  /\ t.blm # NoBlm /\ t.blm = p.blm
               /\ t.btype = p.btype
               /\ t.lmax = p.lmax
               /\ t.mmax = p.mmax
               /\ t.amplitude = p.amplitude
               /\ t.ghost_idx = IF t.ghost /\ p.ghost THEN p.ghost_idx
                                ELSE beams[last'.self].ghost_idx ]_vars

\* The configuration fields of a Beam other than its identity.
ConfigFields ==
    { "az", "el", "polang", "polang_error", "pol", "btype", "po_file",
      "eg_file", "cross_pol", "deconv_q", "normalize", "amplitude",
      "symmetric", "lmax", "mmax", "fwhm", "dead" }

\* The keyword argument v of field k is what the Beam b has in that field (a
\* band limit given as None leaves the field to its default).
Has(b, k, v) ==
    IF k \in {"lmax", "mmax", "fwhm"} THEN v = None \/ b[k] = v[1]
    ELSE b[k] = v

\* C8: a ghost made by create_ghost has, for every configuration field, the
\* primary's value at the time of the call unless the caller overrides that
\* field; overrides win, and ghost=False is ignored.  Stated for the calls
\* that override no band limit (an overridden lmax also clamps mmax).
C8_GhostSnapshotsPrimary ==
    [][ ( /\ Called("create_ghost") /\ last'.err = "ok"
          /\ DOMAIN last'.kw \cap {"lmax", "mmax", "fwhm"} = {} )
        => LET g == beams'[Len(beams')]
               p == beams[last'.self]
               kw == last'.kw
           IN  /\ g.ghost
               /\ \A k \in ConfigFields :
                     IF k \in DOMAIN kw THEN Has(g, k, kw[k])
                     ELSE g[k] = p[k] ]_vars

\* C10: no load_blm call increases the beam's mmax, whatever azimuthal limit
\* the file reports, an unspecified one included.
C10_LoadNeverWidensMmax ==
    [][ \A i \in Ids : last'.prov = "load" => beams'[i].mmax <= beams[i].mmax
      ]_vars

\* The Beams whose cache the step just taken may clear or replace: the
\* target of delete_blm and, with del_ghosts_blm, its ghosts; the target of
\* del blm, of a blm assignment, of reuse_blm, and of a direct call of a
\* provider.
Invalidated ==
    IF last'.op = "delete_blm"
    THEN {last'.self} \cup (IF last'.kw.del_ghosts_blm
                            THEN Owned(beams, last'.self) ELSE {})
    ELSE IF last'.op \in {"del blm", "blm=", "reuse_blm", "load_blm",
                          "gen_gaussian_blm"}
    THEN {last'.self}
    ELSE {}

\* The provider the blm getter dispatches to for a btype.
Provider(btype) ==
    IF btype = "Gaussian" THEN "gauss"
    ELSE IF btype \in {"PO", "EG"} THEN "load" ELSE "none"

\* C3: a provider runs only on a blm read made while the cache is absent;
\* a populated cache stays the same object through reads and through
\* assignments to btype, fwhm, lmax and amplitude, until it is cleared or
\* replaced; a read of an absent cache dispatches on the current btype.
C3_CacheUntilInvalidated ==
    [][ /\ \A i \in Ids :
              (beams[i].blm # NoBlm /\ i \notin Invalidated)
                 => beams'[i].blm = beams[i].blm
        /\ (Called("blm") /\ beams[last'.self].blm # NoBlm)
              => /\ last'.err = "ok" /\ last'.prov = "none"
                 /\ last'.ret = beams[last'.self].blm
                 /\ blms' = blms
        /\ (Called("blm") /\ beams[last'.self].blm = NoBlm)
              => /\ last'.prov = Provider(beams[last'.self].btype)
                 /\ last'.err = "ok"
                       => /\ blms' # blms
                          /\ last'.ret = Len(blms')
                          /\ beams'[last'.self].blm = Len(blms')
        /\ (last'.prov # "none" \/ blms' # blms)
              => \/ Called("blm") /\ beams[last'.self].blm = NoBlm
                 \/ Called("reuse_blm") /\ beams[last'.kw.partner].blm = NoBlm
                 \/ last'.op \in {"load_blm", "gen_gaussian_blm"} ]_vars

\* A read returned the cached triplet, synthesized while btype was
\* Gaussian, after btype was set to something else.
C3_Witness ==
    /\ last.op = "blm" /\ last.err = "ok" /\ last.prov = "none"
    /\ last.ret # NoBlm
    /\ blms[last.ret].via = "gauss"
    /\ beams[last.self].btype # "Gaussian"

\* C5: a successful create_ghost on a primary appends exactly one new ghost
\* Beam to the end of its ghosts, with ghost_idx the ghost_count before the
\* call, and raises ghost_count by exactly 1.
C5_SpawnRegistersOne ==
    [][ (Called("create_ghost") /\ last'.err = "ok")
        => LET p == last'.self
               n == Len(beams) + 1
           IN  /\ Len(beams') = n
               /\ \A i \in Ids \ {p} : beams'[i] = beams[i]
               /\ beams'[n].ghost
               /\ beams'[n].ghost_idx = beams[p].ghost_count
               /\ beams'[p].ghost_count = beams[p].ghost_count + 1
               /\ beams'[p].ghosts = Append(beams[p].ghosts, n)
               /\ beams'[p] = [beams[p] EXCEPT
                                 !.ghost_count = beams'[p].ghost_count,
                                 !.ghosts = beams'[p].ghosts] ]_vars

\* A primary has spawned its second ghost.
C5_Witness ==
    /\ last.op = "create_ghost" /\ last.err = "ok"
    /\ Len(beams[last.self].ghosts) = 2
    /\ beams[last.self].ghost_count = 2

\* C6: self.dead = v on a primary sets dead to v on it and on every ghost
\* it owns; on a ghost it changes only that ghost; no other Beam and no
\* other field changes.
C6_DeadCascade ==
    [][ Called("dead")
        => /\ \A i \in Ids :
                 beams'[i] =
                    IF i = last'.self \/ i \in Owned(beams, last'.self)
                    THEN [beams[i] EXCEPT !.dead = last'.kw.dead]
                    ELSE beams[i]
           /\ Len(beams') = Len(beams)
           /\ blms' = blms ]_vars

\* dead = True was assigned on a primary that owns a ghost, and the ghosts
\* are dead, while a Beam outside the family is still alive.
C6_Witness ==
    /\ last.op = "dead" /\ last.kw.dead
    /\ Owned(beams, last.self) # {}
    /\ \A g \in Owned(beams, last.self) : beams[g].dead
    /\ \E i \in Ids : /\ i # last.self /\ i \notin Owned(beams, last.self)
                      /\ ~beams[i].dead

\* C9: create_ghost on a ghost raises, for any tag and overrides, creates
\* no Beam and changes nothing.
C9_GhostCannotSpawn ==
    [][ (Called("create_ghost") /\ beams[last'.self].ghost)
        => /\ last'.err = "RuntimeError"
           /\ beams' = beams
           /\ blms' = blms ]_vars

\* create_ghost was called on a ghost that a primary owns.
C9_Witness ==
    /\ last.op = "create_ghost" /\ last.err = "RuntimeError"
    /\ beams[last.self].ghost
    /\ \E p \in Ids : last.self \in Owned(beams, p)

\* The file read in the step just taken was in the metadata format with
\* three channels whose azimuthal limits are not all equal.
MismatchRead ==
    /\ last'.file.npy = "IOError" /\ last'.file.hdus = 3
    /\ ~(last'.file.mmax = last'.file.mmaxm2
         /\ last'.file.mmaxm2 = last'.file.mmaxp2)

\* C11: a load of a metadata-format file with three channels raises
\* ValueError whenever the azimuthal limits of the co-polar, spin -2 and
\* spin +2 channels are not all equal, and no Beam's mmax has changed when
\* the error is raised.
C11_MismatchRaisesBeforeMmax ==
    [][ MismatchRead
          => /\ last'.err = "ValueError"
             /\ \A i \in Ids : beams'[i].mmax = beams[i].mmax ]_vars

\* A load failed on a file whose co-polar limit alone differs, all three
\* limits below the Beam's mmax, which is left as it was.
C11_Witness ==
    /\ last.op \in {"load_blm", "blm", "reuse_blm"}
    /\ last.err = "ValueError"
    /\ last.file.hdus = 3
    /\ last.file.mmax = Some(2) /\ last.file.mmaxm2 = Some(1)
    /\ last.file.mmaxp2 = Some(1)
    /\ beams[last.self].mmax > 2

\* C12: when a blm read or a load_blm call fails (btype not recognized, file
\* unreadable in both formats, azimuthal limits that differ), every cache is
\* what it was before the call and no triplet has been made; and a read that
\* follows a failed read finds the cache absent and runs the provider of the
\* current btype again, returning, if it succeeds, a triplet made by it.
C12_FailureKeepsCache ==
    [][ /\ (last'.op \in {"blm", "load_blm"} /\ last'.err # "ok")
            => /\ blms' = blms
               /\ \A i \in Ids : beams'[i].blm = beams[i].blm
        /\ (last.op = "blm" /\ last.err # "ok" /\ Called("blm")
            /\ last'.self = last.self)
            => /\ beams[last.self].blm = NoBlm
               /\ last'.prov = Provider(beams[last.self].btype)
               /\ last'.err = "ok" => last'.ret = Len(blms) + 1 ]_vars

\* A load_blm call on a Beam with a populated cache failed on azimuthal
\* limits that differ, and the cache still holds the triplet it held.
C12_Witness ==
    /\ last.op = "load_blm" /\ last.err = "ValueError"
    /\ last.tries = <<"npy", "fits">>
    /\ beams[last.self].blm # NoBlm
    /\ blms[beams[last.self].blm].via = "gauss"

\* C16: in every load_blm call that is given a file name the dense-array
\* read is the first read tried; the metadata-format read is tried at most
\* once, second, and only after the dense-array read failed with IOError;
\* when the dense-array read succeeds the metadata format is never tried;
\* when both reads fail the error reaches the caller and nothing is tried
\* after them.
C16_DenseFirstThenMetadataOnce ==
    [][ last'.prov = "load"
          => LET t == last'.tries
                 f == last'.file
             IN  /\ t \in {<<>>, <<"npy">>, <<"npy", "fits">>}
                 /\ t = <<>> <=> f = NoFile
                 /\ t = <<>> => last'.err = "TypeError"
                 /\ t = <<"npy", "fits">> <=> f.npy = "IOError"
                 /\ f.npy \in {"rank1", "rank3"}
                       => t = <<"npy">> /\ last'.err = "ok"
                 /\ f.npy = "OtherError"
                       => t = <<"npy">> /\ last'.err = "OtherError"
                 /\ (f.npy = "IOError" /\ f.hdus = 0)
                       => last'.err = "IOError" ]_vars

\* Both reads of a load_blm call failed: the dense-array read, then the
\* metadata-format read, and IOError reached the caller.
C16_Witness ==
    /\ last.op = "load_blm" /\ last.prov = "load"
    /\ last.file.npy = "IOError" /\ last.file.hdus = 0
    /\ last.tries = <<"npy", "fits">>
    /\ last.err = "IOError"

\* The primaries that list the Beam g, once for each place it is listed at.
Listings(h, g) ==
    { <<p, k>> \in (DOMAIN h) \X (1..Len(h)) :
         ~h[p].ghost /\ k \in DOMAIN h[p].ghosts /\ h[p].ghosts[k] = g }

\* C13: through construction, create_ghost, reuse_blm, delete_blm and the dead
\* setter the hierarchy is at most one level deep: every Beam listed in a
\* primary's ghosts is a ghost, no ghost lists ghosts of its own, a listed
\* Beam is listed once by one primary; and no step changes the role of a
\* Beam that exists.
C13_HierarchyDepthOne ==
    [][ /\ \A i \in DOMAIN beams' :
              /\ beams'[i].ghost => beams'[i].ghosts = <<>>
              /\ \A k \in DOMAIN beams'[i].ghosts :
                    /\ beams'[i].ghosts[k] \in DOMAIN beams'
                    /\ beams'[beams'[i].ghosts[k]].ghost
                    /\ Cardinality(Listings(beams', beams'[i].ghosts[k])) = 1
        /\ \A i \in Ids : beams'[i].ghost = beams[i].ghost ]_vars

\* A primary lists a ghost, and the last call was a create_ghost on that
\* ghost, which was refused.
C13_Witness ==
    /\ last.op = "create_ghost" /\ last.err = "RuntimeError"
    /\ beams[last.self].ghost
    /\ \E p \in Ids : ~beams[p].ghost /\ last.self \in Owned(beams, p)

\* C14: an assignment to ghost_idx on a Beam that is no ghost, and one to
\* ghost_count on a ghost, raise ValueError and leave every Beam as it was;
\* an assignment to ghost_count on a Beam that is no ghost, and one to
\* ghost_idx on a ghost, succeed and store the value, changing nothing else.
C14_RoleDependentSetters ==
    [][ LET self == last'.self
        IN  /\ Called("ghost_idx")
                => IF beams[self].ghost
                   THEN /\ last'.err = "ok"
                        /\ beams' = [beams EXCEPT
                                       ![self].ghost_idx = last'.kw.ghost_idx]
                   ELSE last'.err = "ValueError" /\ beams' = beams
            /\ Called("ghost_count")
                => IF ~beams[self].ghost
                   THEN /\ last'.err = "ok"
                        /\ beams' = [beams EXCEPT
                                       ![self].ghost_count =
                                           last'.kw.ghost_count]
                   ELSE last'.err = "ValueError" /\ beams' = beams ]_vars

\* An assignment to ghost_idx on a primary was refused; the primary has no
\* ghost_idx, and the ghost_count assigned to it before is still stored.
C14_Witness ==
    /\ last.op = "ghost_idx" /\ last.err = "ValueError"
    /\ ~beams[last.self].ghost
    /\ beams[last.self].ghost_idx = NoAttr
    /\ beams[last.self].ghost_count = 5

\* C15: delete_blm(del_ghosts_blm) on a primary raises nothing, leaves the
\* primary's cache absent, leaves the cache of each ghost it owns absent if
\* del_ghosts_blm is true and as it was if it is false, and changes nothing
\* else: every other Beam, one that holds the same triplet through reuse_blm
\* included, keeps its cache, and no triplet is touched.
C15_DeleteBlmOnPrimary ==
    [][ (Called("delete_blm") /\ ~beams[last'.self].ghost)
          => LET self == last'.self
                 cleared == {self} \cup (IF last'.kw.del_ghosts_blm
                                         THEN Owned(beams, self) ELSE {})
             IN  /\ last'.err = "ok"
                 /\ blms' = blms
                 /\ beams' = [i \in Ids |->
                                IF i \in cleared
                                THEN [beams[i] EXCEPT !.blm = NoBlm]
                                ELSE beams[i]] ]_vars

\* delete_blm(False) on a primary that owns a ghost: the primary's cache is
\* absent and the ghost still holds a triplet.
C15_Witness ==
    /\ last.op = "delete_blm" /\ last.err = "ok"
    /\ ~last.kw.del_ghosts_blm
    /\ ~beams[last.self].ghost
    /\ beams[last.self].blm = NoBlm
    /\ \E g \in Owned(beams, last.self) : beams[g].blm # NoBlm

\* C17: in every reachable state two ghosts with the same ghost_idx whose
\* caches are both populated hold the identical triplet object.
C17_SameIdxSameBlm ==
    \A i, j \in Ids :
       (/\ beams[i].ghost /\ beams[j].ghost
        /\ beams[i].ghost_idx # NoAttr
        /\ beams[i].ghost_idx = beams[j].ghost_idx
        /\ beams[i].blm # NoBlm /\ beams[j].blm # NoBlm)
          => beams[i].blm = beams[j].blm

\* Every ghost of a dead primary is dead, in the heap h.
DeadCovers(h) ==
    \A p \in DOMAIN h : (~h[p].ghost /\ h[p].dead)
                           => \A g \in Owned(h, p) : h[g].dead

\* C18 as stated: in every reachable state every ghost owned by a dead
\* primary is dead.
C18_DeadPrimaryDeadGhosts == DeadCovers(beams)

\* The step just taken set dead to False on a ghost alone, or spawned a ghost
\* with dead=False among the overrides.
RevivesGhost ==
    \/ Called("dead") /\ beams[last'.self].ghost /\ ~last'.kw.dead
    \/ /\ Called("create_ghost")
       /\ "dead" \in DOMAIN last'.kw
       /\ ~last'.kw.dead

\* C18, amended: every ghost owned by a dead primary is dead for as long as
\* no ghost has had dead set to False on it alone and no ghost was spawned
\* with a dead=False override: every other step, a spawn by a primary that is
\* already dead and an assignment of dead on a primary included, keeps it so.
C18_DeadCoversUnlessRevived ==
    [][ (DeadCovers(beams) /\ ~RevivesGhost) => DeadCovers(beams') ]_vars

\* A primary that was dead already has spawned a ghost without a dead
\* override, and the ghost is dead.
C18_Witness ==
    /\ last.op = "create_ghost" /\ last.err = "ok"
    /\ "dead" \notin DOMAIN last.kw
    /\ beams[last.self].dead
    /\ beams[Len(beams)].ghost /\ beams[Len(beams)].dead
    /\ Len(beams) \in Owned(beams, last.self)

\* C19: a reuse_blm call that fails (the partner is no Beam, or the partner's
\* coefficients cannot be produced) leaves the target as it was: its cache,
\* btype, lmax, mmax, amplitude and ghost_idx are unchanged.
C19_FailedReuseLeavesTarget ==
    [][ (Called("reuse_blm") /\ last'.err # "ok")
          => LET old == beams[last'.self]
                 new == beams'[last'.self]
             IN  /\ new.blm = old.blm
                 /\ new.btype = old.btype
                 /\ new.lmax = old.lmax
                 /\ new.mmax = old.mmax
                 /\ new.amplitude = old.amplitude
                 /\ new.ghost_idx = old.ghost_idx ]_vars

\* C20: while ghost_count is never assigned by the caller, after every
\* create_ghost call, one that failed in the construction of the ghost
\* included, the ghost_count of each primary is the length of its ghosts; a
\* successful call gives the new ghost, the n-th of the sequence, the
\* ghost_idx n - 1, so the values given are 0, 1, ... in sequence order and
\* none is given twice; a failed call changes no Beam.
C20_CountIsLengthIdxIsPosition ==
    [][ /\ \A p \in DOMAIN beams' :
              ~beams'[p].ghost
                 => beams'[p].ghost_count = Len(beams'[p].ghosts)
        /\ (Called("create_ghost") /\ last'.err = "ok")
              => LET n == Len(beams'[last'.self].ghosts)
                     g == beams'[last'.self].ghosts[n]
                 IN  /\ n = Len(beams[last'.self].ghosts) + 1
                     /\ g \notin Ids
                     /\ beams'[g].ghost_idx = n - 1
        /\ (Called("create_ghost") /\ last'.err # "ok")
              => beams' = beams ]_vars

\* A spawn failed in the construction of the ghost after one that succeeded:
\* the primary still counts one ghost and lists one, with ghost_idx 0.
C20_Witness ==
    /\ last.op = "create_ghost"
    /\ last.err \notin {"ok", "RuntimeError"}
    /\ ~beams[last.self].ghost
    /\ beams[last.self].ghost_count = 1
    /\ Len(beams[last.self].ghosts) = 1
    /\ beams[beams[last.self].ghosts[1]].ghost_idx = 0

====
